---- MODULE Spec2Model ----
(***************************************************************************)
(* Ground SSD safety analysis (paraatm/safety/ground_ssd.py).               *)
(*                                                                         *)
(* Numbers are fixed point integers:                                       *)
(*   positions      metres north / east of a reference point               *)
(*   distances      1e-4 m          (175 ft = 533400)                       *)
(*   sines, cosines 1e-3            tangents 1e-2                           *)
(*   envelope vmax  1e-6 kt         (4 * MILES_TO_NM = 3475904)            *)
(*   velocities     1e-1 kt         areas  half (1e-1 kt)^2                 *)
(***************************************************************************)
EXTENDS Integers, Sequences, FiniteSets, TLC

\* ------------------------------------------------------------------------
\* Arithmetic helpers
\* ------------------------------------------------------------------------
Abs(n) == IF n < 0 THEN -n ELSE n

Sgn(n) == IF n < 0 THEN -1 ELSE IF n = 0 THEN 0 ELSE 1

Max2(a, b) == IF a < b THEN b ELSE a

RECURSIVE SqrtIter(_, _, _)
SqrtIter(n, lo, hi) ==
    IF hi - lo <= 1 THEN lo
    ELSE LET mid == (lo + hi) \div 2
         IN  IF mid * mid <= n THEN SqrtIter(n, mid, hi) ELSE SqrtIter(n, lo, mid)

\* np.sqrt, rounded down (n < 46340 ^ 2)
ISqrt(n) == SqrtIter(n, 0, 46340)

\* c * v / 1000 for a factor c in 1e-3 units, without leaving 32 bits
MulMilli(c, v) == (c \div 1000) * v + ((c % 1000) * v) \div 1000

RECURSIVE SumSeq(_)
SumSeq(s) == IF s = << >> THEN 0 ELSE Head(s) + SumSeq(Tail(s))

\* a natural number below 10^12 as three base-10^4 limbs, least significant first
Limbs(n) == << n % 10000, (n \div 10000) % 10000, n \div 100000000 >>

\* the product of two naturals as five normalised base-10^4 limbs, most significant first
MulBig(a, b) ==
    LET x  == Limbs(a)
        y  == Limbs(b)
        r0 == x[1] * y[1]
        r1 == x[1] * y[2] + x[2] * y[1] + r0 \div 10000
        r2 == x[1] * y[3] + x[2] * y[2] + x[3] * y[1] + r1 \div 10000
        r3 == x[2] * y[3] + x[3] * y[2] + r2 \div 10000
        r4 == x[3] * y[3] + r3 \div 10000
    IN  << r4, r3 % 10000, r2 % 10000, r1 % 10000, r0 % 10000 >>

RECURSIVE CmpLex(_, _)
CmpLex(p, q) ==
    IF p = << >> THEN 0
    ELSE IF Head(p) # Head(q) THEN (IF Head(p) < Head(q) THEN -1 ELSE 1)
    ELSE CmpLex(Tail(p), Tail(q))

\* the sign of a*b - c*d, exact for |a|,|b|,|c|,|d| < 2^31
SignDiffProd(a, b, c, d) ==
    LET s1 == Sgn(a) * Sgn(b)
        s2 == Sgn(c) * Sgn(d)
    IN  IF s1 # s2 THEN (IF s1 < s2 THEN -1 ELSE 1)
        ELSE IF s1 = 0 THEN 0
        ELSE s1 * CmpLex(MulBig(Abs(a), Abs(b)), MulBig(Abs(c), Abs(d)))

\* the sign of the cross product (p - o) x (q - o)
Orient(o, p, q) ==
    SignDiffProd(p[1] - o[1], q[2] - o[2], p[2] - o[2], q[1] - o[1])

\* ------------------------------------------------------------------------
\* Sequence helpers in the shape of the numpy calls the code makes
\* ------------------------------------------------------------------------
Range(s) == { s[k] : k \in DOMAIN s }

\* a[idx] with a 0-based index array
Take(a, idx) == [m \in 1..Len(idx) |-> a[idx[m] + 1]]

\* np.arange(lo, hi)
Arange(lo, hi) == [k \in 1..Max2(hi - lo, 0) |-> lo + k - 1]

\* [::-1]
Reverse(s) == [k \in 1..Len(s) |-> s[Len(s) + 1 - k]]

\* np.cumsum
Cumsum(s) == [k \in 1..Len(s) |-> SumSeq(SubSeq(s, 1, k))]

RECURSIVE Repeat(_, _)
\* np.repeat(vals, counts)
Repeat(vals, counts) ==
    IF vals = << >> THEN << >>
    ELSE [k \in 1..Head(counts) |-> Head(vals)] \o Repeat(Tail(vals), Tail(counts))

\* np.put(a, idx, vals) with 0-based positions (the last write to a position wins)
Put(a, idx, vals) ==
    [k \in 1..Len(a) |->
        LET hits == { m \in 1..Len(idx) : idx[m] + 1 = k }
        IN  IF hits = {} THEN a[k]
            ELSE vals[CHOOSE m \in hits : \A m2 \in hits : m2 <= m]]

RECURSIVE Concat(_)
\* np.concatenate / pd.concat of a list of sequences
Concat(ss) == IF ss = << >> THEN << >> ELSE Head(ss) \o Concat(Tail(ss))

\* np.where(flags)[0]: the 0-based positions that hold TRUE, ascending
RECURSIVE WhereFrom(_, _)
WhereFrom(flags, k) ==
    IF k > Len(flags) THEN << >>
    ELSE (IF flags[k] THEN << k - 1 >> ELSE << >>) \o WhereFrom(flags, k + 1)

Where(flags) == WhereFrom(flags, 1)

\* np.delete(a, i) with a 0-based position
Delete(a, i) == [k \in 1..(Len(a) - 1) |-> IF k <= i THEN a[k] ELSE a[k + 1]]

\* ------------------------------------------------------------------------
\* Module constants and status strings (strings are character sequences, so
\* that Python's substring test "x in status" is computed, not assumed)
\* ------------------------------------------------------------------------
MILES_TO_NM == 868976

FT_TO_M == 3048

\* a missing value (None / NaN) of a data frame cell
NaN == << "NaN" >>

S_PUSHBACK == << "P", "U", "S", "H", "B", "A", "C", "K" >>

S_TAXI == << "T", "A", "X", "I" >>

S_TAKEOFF_LANDING ==
    << "T", "A", "K", "E", "O", "F", "F", "/", "L", "A", "N", "D", "I", "N", "G" >>

S_GATE == << "G", "A", "T", "E" >>

S_DEPARTING == << "D", "E", "P", "A", "R", "T", "I", "N", "G" >>

S_onsurface == << "o", "n", "s", "u", "r", "f", "a", "c", "e" >>

S_onramp == << "o", "n", "r", "a", "m", "p" >>

S_AT_GATE == << "A", "T", "_", "G", "A", "T", "E" >>

\* Python's  sub in s  on strings
InStr(sub, s) ==
    \E k \in 0..(Len(s) - Len(sub)) : SubSeq(s, k + 1, k + Len(sub)) = sub

\* the three rows of the fallback table, as the code writes them
EnvPushback == [vmin |-> 0, vmax |-> 4 * MILES_TO_NM, sep |-> 175 * FT_TO_M]

EnvTaxi == [vmin |-> 0, vmax |-> 30 * MILES_TO_NM, sep |-> 200 * FT_TO_M]

EnvElse == [vmin |-> 0, vmax |-> 200 * MILES_TO_NM, sep |-> 2640 * FT_TO_M]

\* one step of the generator _load_BADA
load_BADA(status) ==
    IF status = NaN THEN EnvPushback
    ELSE IF status = S_onsurface \/ InStr(S_GATE, status) \/ InStr(S_PUSHBACK, status)
         THEN EnvPushback
    ELSE IF status = S_onramp \/ InStr(S_DEPARTING, status) THEN EnvTaxi
    ELSE EnvElse

\* infer_status for one row: the status the speed thresholds assign, NaN if none does
infer_status(tas) ==
    IF tas <= 4 THEN S_PUSHBACK
    ELSE IF tas > 4 /\ tas <= 30 THEN S_TAXI
    ELSE IF tas > 30 /\ tas <= 200 THEN S_TAKEOFF_LANDING
    ELSE NaN

\* ------------------------------------------------------------------------
\* Input data frames
\* ------------------------------------------------------------------------
MaxRows == 3

\* the aircraft a data frame row can describe
Kinds ==
    { [callsign |-> "AAL1", latitude |-> 0,   longitude |-> 0,      tas |-> 3,
       heading |-> 90,  status |-> S_PUSHBACK,  ms |-> 100],
      [callsign |-> "UAL2", latitude |-> 0,   longitude |-> 40,     tas |-> 3,
       heading |-> 270, status |-> S_onramp,    ms |-> 200],
      [callsign |-> "DAL3", latitude |-> 400, longitude |-> 300,    tas |-> 10,
       heading |-> 180, status |-> NaN,         ms |-> 300],
      [callsign |-> "SWA4", latitude |-> 0,   longitude |-> 120000, tas |-> 250,
       heading |-> 180, status |-> S_AT_GATE,   ms |-> 400],
      [callsign |-> "JBU5", latitude |-> 0,   longitude |-> -300,   tas |-> 150,
       heading |-> 0,   status |-> S_DEPARTING, ms |-> 500] }

\* the window starts (ms) a row can fall after
WindowStarts == {0, 2000}

Rows ==
    { [time |-> w + k.ms, callsign |-> k.callsign, latitude |-> k.latitude,
       longitude |-> k.longitude, tas |-> k.tas, heading |-> k.heading,
       status |-> k.status] : w \in WindowStarts, k \in Kinds }

DataFrames == UNION { [1..n -> Rows] : n \in 0..MaxRows }

\* sin and cos of a heading that is a multiple of 90 degrees
SinDeg(h) == CASE h = 0 -> 0 [] h = 90 -> 1 [] h = 180 -> 0 [] h = 270 -> -1

CosDeg(h) == CASE h = 0 -> 1 [] h = 90 -> 0 [] h = 180 -> -1 [] h = 270 -> 0

\* lines 37-48: one row of traf, velocities in 1e-1 kt
TrafRow(r, has_status) ==
    [time |-> r.time, callsign |-> r.callsign, latitude |-> r.latitude,
     longitude |-> r.longitude, tas |-> r.tas, heading |-> r.heading,
     x |-> SinDeg(r.heading) * r.tas * 10,
     y |-> CosDeg(r.heading) * r.tas * 10,
     status |-> IF has_status THEN r.status ELSE infer_status(r.tas)]

\* traf.dropna(): only the status column can hold a missing value here
dropna(t) == LET Present(r) == r.status # NaN IN SelectSeq(t, Present)

\* lookahead_seconds = 1, so timestep = int(lookahead_seconds * 1e3)
timestep == 1000

Bin(r) == r.time \div timestep

\* traf.groupby(pd.Grouper(key='time', freq=...)): one group per bin from the
\* first to the last occupied bin, empty bins included, rows in frame order
groupby(t) ==
    IF t = << >> THEN << >>
    ELSE LET bins  == { Bin(t[k]) : k \in DOMAIN t }
             first == CHOOSE b \in bins : \A c \in bins : b <= c
             last  == CHOOSE b \in bins : \A c \in bins : c <= b
             InBin(b) == LET Here(r) == Bin(r) = b IN SelectSeq(t, Here)
         IN  [k \in 1..(last - first + 1) |-> InBin(first + k - 1)]

\* ------------------------------------------------------------------------
\* Pairwise geometry
\* ------------------------------------------------------------------------
qdrdist_matrix_indices(n) ==
    LET x    == Arange(0, n - 1)
        ind1 == Repeat(x, Reverse([k \in 1..Len(x) |-> x[k] + 1]))
        ones == [k \in 1..Len(ind1) |-> 1]
        rest == Reverse(Tail(x))
        at   == Cumsum([k \in 1..Len(rest) |-> rest[k] + 1])
        ind2 == Cumsum(Put(ones, at, Arange(3 - n, 1)))
    IN  << ind1, ind2 >>

\* np.tile(a, reps)
Tile(a, reps) == [k \in 1..(Len(a) * reps) |-> a[((k - 1) % Len(a)) + 1]]

\* a[lo:hi] with 0-based bounds
Slice(a, lo, hi) == SubSeq(a, lo + 1, hi)

\* lines 285-286: the first aircraft's coordinate of every pair
PairFirst(a) ==
    LET n == Len(a) IN Repeat(SubSeq(a, 1, n - 1), [k \in 1..(n - 1) |-> n - k])

\* lines 287-290: the second aircraft's coordinate of every pair
PairSecond(a) ==
    LET n     == Len(a)
        tiled == Tile(a, n - 1)
    IN  Concat([i \in 1..(n - 1) |-> Slice(tiled, i, n)])

\* np.sqrt(dx*dx + dy*dy) in metres, rounded down; long legs lose low digits
Hyp(dx, dy) ==
    LET s == Max2(Abs(dx), Abs(dy)) \div 32768 + 1
        u == Abs(dx) \div s
        v == Abs(dy) \div s
    IN  s * ISqrt(u * u + v * v)

\* _qdrdist_matrix for one pair (simplified branch): bearing as (sin, cos) in
\* 1e-3 and distance in 1e-4 m; positions are metres, i.e. re * radians(lat)
\* and re * radians(lon) * cavelat
qdrdist(lat1, lon1, lat2, lon2) ==
    LET dlat == lat2 - lat1
        dlon == lon2 - lon1
        m    == Hyp(dlon, dlat)
    IN  [sin  |-> IF m = 0 THEN 0 ELSE (1000 * dlon) \div m,
         cos  |-> IF m = 0 THEN 1000 ELSE (1000 * dlat) \div m,
         dist |-> m * 10000]

\* lines 297-298
ClampDist(d, hsep) ==
    IF d < hsep /\ d > 0 THEN hsep
    ELSE IF d = 0 THEN hsep + 10000
    ELSE d

\* tan(alpham), alpham = 0.4999 * pi, in 1e-2
TanAlpham == 318310

\* lines 303-309: tan(min(arcsin(hsep / dist), alpham)) in 1e-2
TanAlpha(hsep, dist) ==
    LET r  == ((hsep \div 100) * 10000) \div (dist \div 100)
        sq == ISqrt(100000000 - r * r)
        t  == (100 * r) \div sq
    IN  IF sq = 0 THEN TanAlpham ELSE IF t > TanAlpham THEN TanAlpham ELSE t

adsbmax == 65 * 5280 * FT_TO_M

\* ------------------------------------------------------------------------
\* The polygon clipper (pyclipper), on a lattice of sixteen square cells laid
\* over the bounding square of the ring: a cell belongs to a region when its
\* centre does, and a region is returned as one contour per cell
\* ------------------------------------------------------------------------
\* the fixed point factor of scale_to_clipper / scale_from_clipper
ClipperScale == 4

scale_to_clipper(path) ==
    [k \in 1..Len(path) |-> << path[k][1] * ClipperScale, path[k][2] * ClipperScale >>]

scale_from_clipper(v) == v \div ClipperScale

\* pyclipper.Area: the signed area of a closed path, positive when counter-
\* clockwise (returned doubled, so that it is an integer)
PyclipperArea(path) ==
    LET n == Len(path)
        X(k) == path[k][1] - path[1][1]
        Y(k) == path[k][2] - path[1][2]
        Nxt(k) == IF k = n THEN 1 ELSE k + 1
    IN  SumSeq([k \in 1..n |-> X(k) * Y(Nxt(k)) - X(Nxt(k)) * Y(k)])

\* a region as Python sees it: a list of paths (nested) or one bare path
Paths(ps) == [nested |-> TRUE, v |-> ps]

BarePath(path) == [nested |-> FALSE, v |-> path]

\* _area with abs() around every contour's area
area_abs(vset) ==
    IF vset.v = << >> THEN [exc |-> "IndexError", value |-> 0]
    ELSE IF vset.nested
         THEN [exc |-> "",
               value |-> SumSeq([i \in 1..Len(vset.v) |->
                   Abs(scale_from_clipper(scale_from_clipper(
                       PyclipperArea(scale_to_clipper(vset.v[i])))))])]
    ELSE [exc |-> "",
          value |-> Abs(scale_from_clipper(scale_from_clipper(
                        PyclipperArea(scale_to_clipper(vset.v)))))]

\* _area: the value returned, or the exception vset[0] raises on an empty list
area(vset) ==
    IF vset.v = << >> THEN [exc |-> "IndexError", value |-> 0]
    ELSE IF vset.nested
         THEN [exc |-> "",
               value |-> SumSeq([i \in 1..Len(vset.v) |->
                   scale_from_clipper(scale_from_clipper(
                       PyclipperArea(scale_to_clipper(vset.v[i]))))])]
    ELSE [exc |-> "",
          value |-> scale_from_clipper(scale_from_clipper(
                        PyclipperArea(scale_to_clipper(vset.v))))]

\* the cells, by the odd quarter-steps of their centres, in a fixed order
CellSteps == << -3, -1, 1, 3 >>

Cells == [k \in 1..16 |-> << CellSteps[((k - 1) \div 4) + 1], CellSteps[((k - 1) % 4) + 1] >>]

\* the centre of a cell of the ring of radius vmax
CellCentre(c, vmax) == << (vmax * c[1]) \div 4, (vmax * c[2]) \div 4 >>

\* the counter-clockwise contour of a cell
CellContour(c, vmax) ==
    LET x0 == (vmax * (c[1] - 1)) \div 4
        x1 == (vmax * (c[1] + 1)) \div 4
        y0 == (vmax * (c[2] - 1)) \div 4
        y1 == (vmax * (c[2] + 1)) \div 4
    IN  << << x0, y0 >>, << x1, y0 >>, << x1, y1 >>, << x0, y1 >> >>

\* the subject of lines 276 and 370: the centre lies between the circles of
\* radius vmin and vmax
InRing(c, vmax, vmin) ==
    LET r2 == c[1] * c[1] + c[2] * c[2]
    IN  /\ r2 < 16
        /\ SignDiffProd(vmax * r2, vmax, 16 * vmin, vmin) >= 0
        /\ vmax > 0

\* a point of a closed triangle (either winding: the fill rule is non-zero)
InTriangle(pt, tri) ==
    LET a == Orient(pt, tri[1], tri[2])
        b == Orient(pt, tri[2], tri[3])
        c == Orient(pt, tri[3], tri[1])
    IN  (a >= 0 /\ b >= 0 /\ c >= 0) \/ (a <= 0 /\ b <= 0 /\ c <= 0)

\* pc.AddPath accepts a closed path that is not degenerate
ValidPath(tri) == Orient(tri[1], tri[2], tri[3]) # 0

Covered(c, vmax, clips) ==
    \E k \in 1..Len(clips) : InTriangle(CellCentre(c, vmax), clips[k])

RECURSIVE RegionFrom(_, _, _, _, _)
\* the contours of the cells k..16 of the ring whose coverage by the clip paths is  want
RegionFrom(k, vmax, vmin, clips, want) ==
    IF k > 16 THEN << >>
    ELSE (IF InRing(Cells[k], vmax, vmin) /\ (Covered(Cells[k], vmax, clips) <=> want)
          THEN << CellContour(Cells[k], vmax) >> ELSE << >>)
         \o RegionFrom(k + 1, vmax, vmin, clips, want)

\* pc.Execute(CT_INTERSECTION, ...), scaled back: the ring inside the clip paths
ExecuteIntersection(vmax, vmin, clips) == RegionFrom(1, vmax, vmin, clips, TRUE)

\* pc.Execute(CT_DIFFERENCE, ...), scaled back: the ring outside the clip paths
ExecuteDifference(vmax, vmin, clips) == RegionFrom(1, vmax, vmin, clips, FALSE)

\* np.pi * (vmax ** 2 - vmin ** 2), in half (1e-1 kt)^2
RingArea(vmax, vmin) ==
    LET d == vmax * vmax - vmin * vmin IN 6 * d + (d * 283) \div 1000

\* ------------------------------------------------------------------------
\* _conflict
\* ------------------------------------------------------------------------
\* an envelope speed (1e-6 kt) as a velocity (1e-1 kt)
Vel(v) == v \div 100000

\* line 280 with the threshold off by one
TooFew_three(n) == n < 3

\* line 280
TooFew(n) == n < 2

\* lines 283-290: the flattened pair enumeration
PairArrays(traffic) ==
    [ind1 |-> qdrdist_matrix_indices(Len(traffic))[1],
     ind2 |-> qdrdist_matrix_indices(Len(traffic))[2],
     lat1 |-> PairFirst([k \in 1..Len(traffic) |-> traffic[k].latitude]),
     lon1 |-> PairFirst([k \in 1..Len(traffic) |-> traffic[k].longitude]),
     lat2 |-> PairSecond([k \in 1..Len(traffic) |-> traffic[k].latitude]),
     lon2 |-> PairSecond([k \in 1..Len(traffic) |-> traffic[k].longitude])]

\* lines 317-320: the wedge legs of every pair, scaled for an aircraft of top
\* speed vmax
Wedges(sinqdr, cosqdr, tanalpha, vmax) ==
    [x1 |-> [p \in 1..Len(tanalpha) |->
                MulMilli(sinqdr[p] + (cosqdr[p] * tanalpha[p]) \div 100, 2 * vmax)],
     x2 |-> [p \in 1..Len(tanalpha) |->
                MulMilli(sinqdr[p] - (cosqdr[p] * tanalpha[p]) \div 100, 2 * vmax)],
     y1 |-> [p \in 1..Len(tanalpha) |->
                MulMilli(cosqdr[p] - (sinqdr[p] * tanalpha[p]) \div 100, 2 * vmax)],
     y2 |-> [p \in 1..Len(tanalpha) |->
                MulMilli(cosqdr[p] + (sinqdr[p] * tanalpha[p]) \div 100, 2 * vmax)]]

\* lines 340-343 with i_other cut to the number of survivors instead of filtered
AdsbFilter_cut(ind0, i_other0, dist) ==
    [ind     |-> Take(ind0, Where([m \in 1..Len(ind0) |-> dist[ind0[m] + 1] < adsbmax])),
     i_other |-> SubSeq(i_other0, 1,
                        Len(Where([m \in 1..Len(ind0) |-> dist[ind0[m] + 1] < adsbmax])))]

\* lines 340-343: the pair indices and the neighbours that are within ADS-B range
AdsbFilter(ind0, i_other0, dist) ==
    [ind     |-> Take(ind0, Where([m \in 1..Len(ind0) |-> dist[ind0[m] + 1] < adsbmax])),
     i_other |-> Take(i_other0, Where([m \in 1..Len(ind0) |-> dist[ind0[m] + 1] < adsbmax]))]

\* lines 325-343: the pairs aircraft i takes part in, then the ADS-B filter
Neighbours(i, n, ind1, ind2, dist) ==
    AdsbFilter(Where([p \in 1..Len(dist) |-> ind1[p] = i \/ ind2[p] = i]),
               Delete(Arange(0, n), i), dist)

\* lines 347-348 with the comparison turned around
Fix_greater(i_other, i) == [m \in 1..Len(i_other) |-> IF i_other[m] > i THEN -1 ELSE 1]

\* lines 347-348
Fix(i_other, i) == [m \in 1..Len(i_other) |-> IF i_other[m] < i THEN -1 ELSE 1]

\* lines 355-365: the velocity obstacle of every neighbour in range, as the
\* neighbour's velocity followed by the two wedge corners
VelocityObstacles(traffic, wedge, ind, i_other, fx) ==
    [m \in 1..Len(i_other) |->
        << << traffic[i_other[m] + 1].x, traffic[i_other[m] + 1].y >>,
           << wedge.x1[ind[m] + 1] * fx[m] + traffic[i_other[m] + 1].x,
              wedge.y1[ind[m] + 1] * fx[m] + traffic[i_other[m] + 1].y >>,
           << wedge.x2[ind[m] + 1] * fx[m] + traffic[i_other[m] + 1].x,
              wedge.y2[ind[m] + 1] * fx[m] + traffic[i_other[m] + 1].y >> >>]

\* line 374: the record whose callsign is compared with aircraft i's for the
\* j-th neighbour in range
ComparedRow(j, i_other) == j

\* lines 373-375: the positions j whose velocity obstacle is handed to AddPath
Submitted(i, traffic, i_other) ==
    Where([m \in 1..Len(i_other) |->
              traffic[ComparedRow(m - 1, i_other) + 1].callsign # traffic[i + 1].callsign])

\* lines 401-404: the positions whose path the clipper accepts
Accepted(sub, vos) == SelectSeq(sub, LAMBDA j : ValidPath(vos[j + 1]))

\* lines 414-446 with the two emptiness tests exchanged
Areas_exchanged(vmax, vmin, frv, arv) ==
    IF Len(frv) = 0
    THEN [branch |-> "ARV_empty", FRV_area |-> RingArea(vmax, vmin), ARV_area |-> 0]
    ELSE IF Len(arv) = 0
    THEN [branch |-> "FRV_empty", FRV_area |-> 0, ARV_area |-> RingArea(vmax, vmin)]
    ELSE [branch |-> "both", FRV_area |-> area(Paths(frv)).value,
          ARV_area |-> area(Paths(arv)).value]

\* lines 414-446: the branch taken and the two areas
Areas(vmax, vmin, frv, arv) ==
    IF Len(arv) = 0
    THEN [branch |-> "ARV_empty", FRV_area |-> RingArea(vmax, vmin), ARV_area |-> 0]
    ELSE IF Len(frv) = 0
    THEN [branch |-> "FRV_empty", FRV_area |-> 0, ARV_area |-> RingArea(vmax, vmin)]
    ELSE [branch |-> "both", FRV_area |-> area(Paths(frv)).value,
          ARV_area |-> area(Paths(arv)).value]

\* line 452 with the ARV area left out of the denominator
Fpf_frv_only(FRV_area, ARV_area) == [num |-> ARV_area, den |-> FRV_area]

\* line 452
Fpf(FRV_area, ARV_area) == [num |-> ARV_area, den |-> FRV_area + ARV_area]

\* ------------------------------------------------------------------------
\* ground_ssd_safety_analysis as a state machine.  The locals of the latest
\* _conflict call are state: per pair ind1 .. tanalpha, per aircraft wedge ..
\* areas.
\* ------------------------------------------------------------------------
VARIABLES pc, groups, results, ret,
          called, traffic, ac_info, hsep, pairs, qd, dist, tanalpha,
          wedge, near, fix, xy, tried, added, FRV, ARV, areas, none, FPFs,
          vset, area_ret

locals == << called, traffic, ac_info, hsep, pairs, qd, dist, tanalpha,
             wedge, near, fix, xy, tried, added, FRV, ARV, areas, none, FPFs >>

vars == << pc, groups, results, ret, locals, vset, area_ret >>

\* nothing of ground_ssd_safety_analysis or _conflict has run yet
Idle ==
    /\ groups = << >>
    /\ results = << >>
    /\ ret = [exc |-> "", rows |-> << >>]
    /\ called = FALSE
    /\ traffic = << >>
    /\ ac_info = << >>
    /\ hsep = 0
    /\ pairs = [ind1 |-> << >>, ind2 |-> << >>, lat1 |-> << >>, lon1 |-> << >>,
                lat2 |-> << >>, lon2 |-> << >>]
    /\ qd = << >>
    /\ dist = << >>
    /\ tanalpha = << >>
    /\ wedge = << >>
    /\ near = << >>
    /\ fix = << >>
    /\ xy = << >>
    /\ tried = << >>
    /\ added = << >>
    /\ FRV = << >>
    /\ ARV = << >>
    /\ areas = << >>
    /\ none = FALSE
    /\ FPFs = << >>

Init ==
    /\ pc = "start"
    /\ Idle
    /\ vset = Paths(<< >>)
    /\ area_ret = [exc |-> "", value |-> 0]

\* lines 37-56: build traf from the data frame, drop incomplete rows, group by window
Prepare ==
    /\ pc = "start"
    /\ \E df \in DataFrames, has_status \in BOOLEAN :
           groups' = groupby(dropna([k \in 1..Len(df) |-> TrafRow(df[k], has_status)]))
    /\ pc' = "loop"
    /\ UNCHANGED << results, ret, locals, vset, area_ret >>

\* lines 57-58
SkipEmptyGroup ==
    /\ pc = "loop"
    /\ groups # << >>
    /\ Head(groups) = << >>
    /\ groups' = Tail(groups)
    /\ UNCHANGED << pc, results, ret, locals, vset, area_ret >>

\* _conflict, lines 241-281, and the return of None
ConflictHead ==
    /\ called' = TRUE
    /\ traffic' = Head(groups)
    /\ ac_info' = [k \in 1..Len(Head(groups)) |-> load_BADA(Head(groups)[k].status)]
    /\ hsep' = ac_info'[1].sep
    /\ none' = TooFew(Len(traffic'))

\* _conflict, lines 283-311
ConflictPairs ==
    /\ pairs' = PairArrays(traffic')
    /\ qd' = [p \in 1..Len(pairs'.lat1) |->
                 qdrdist(pairs'.lat1[p], pairs'.lon1[p], pairs'.lat2[p], pairs'.lon2[p])]
    /\ dist' = [p \in 1..Len(qd') |-> ClampDist(qd'[p].dist, hsep')]
    /\ tanalpha' = [p \in 1..Len(dist') |-> TanAlpha(hsep', dist'[p])]

\* _conflict, lines 315-453, for every aircraft of the window
ConflictLoop ==
    /\ wedge' = [k \in 1..Len(traffic') |->
                    Wedges([p \in 1..Len(qd') |-> qd'[p].sin],
                           [p \in 1..Len(qd') |-> qd'[p].cos],
                           tanalpha', Vel(ac_info'[k].vmax))]
    /\ near' = [k \in 1..Len(traffic') |->
                   Neighbours(k - 1, Len(traffic'), pairs'.ind1, pairs'.ind2, dist')]
    /\ fix' = [k \in 1..Len(traffic') |-> Fix(near'[k].i_other, k - 1)]
    /\ xy' = [k \in 1..Len(traffic') |->
                 VelocityObstacles(traffic', wedge'[k], near'[k].ind, near'[k].i_other,
                                   fix'[k])]
    /\ tried' = [k \in 1..Len(traffic') |-> Submitted(k - 1, traffic', near'[k].i_other)]
    /\ added' = [k \in 1..Len(traffic') |-> Accepted(tried'[k], xy'[k])]
    /\ FRV' = [k \in 1..Len(traffic') |->
                  ExecuteIntersection(Vel(ac_info'[k].vmax), Vel(ac_info'[k].vmin),
                                      Take(xy'[k], added'[k]))]
    /\ ARV' = [k \in 1..Len(traffic') |->
                  ExecuteDifference(Vel(ac_info'[k].vmax), Vel(ac_info'[k].vmin),
                                    Take(xy'[k], added'[k]))]
    /\ areas' = [k \in 1..Len(traffic') |->
                    Areas(Vel(ac_info'[k].vmax), Vel(ac_info'[k].vmin), FRV'[k], ARV'[k])]
    /\ FPFs' = [k \in 1..Len(traffic') |->
                   [time |-> traffic'[k].time, callsign |-> traffic'[k].callsign,
                    fpf |-> Fpf(areas'[k].FRV_area, areas'[k].ARV_area)]]

\* the locals _conflict never sets when it returns at line 281
ConflictNone ==
    /\ pairs' = [ind1 |-> << >>, ind2 |-> << >>, lat1 |-> << >>, lon1 |-> << >>,
                 lat2 |-> << >>, lon2 |-> << >>]
    /\ qd' = << >>
    /\ dist' = << >>
    /\ tanalpha' = << >>
    /\ wedge' = << >>
    /\ near' = << >>
    /\ fix' = << >>
    /\ xy' = << >>
    /\ tried' = << >>
    /\ added' = << >>
    /\ FRV' = << >>
    /\ ARV' = << >>
    /\ areas' = << >>
    /\ FPFs' = << >>

\* lines 59-64: one non-empty group through _load_BADA and _conflict
ProcessGroup ==
    /\ pc = "loop"
    /\ groups # << >>
    /\ Head(groups) # << >>
    /\ ConflictHead
    /\ IF none' THEN ConflictNone ELSE ConflictPairs /\ ConflictLoop
    /\ results' = IF ~none' /\ FPFs' # << >> THEN Append(results, FPFs') ELSE results
    /\ groups' = Tail(groups)
    /\ UNCHANGED << pc, ret, vset, area_ret >>

\* lines 66-68: pd.concat raises ValueError on an empty list
ConcatResults ==
    /\ pc = "loop"
    /\ groups = << >>
    /\ IF results = << >>
       THEN /\ ret' = [exc |-> "ValueError", rows |-> << >>]
            /\ pc' = "raised"
       ELSE /\ ret' = [exc |-> "", rows |-> Concat(results)]
            /\ pc' = "returned"
    /\ UNCHANGED << groups, results, locals, vset, area_ret >>

Next == Prepare \/ SkipEmptyGroup \/ ProcessGroup \/ ConcatResults

Spec == Init /\ [][Next]_vars

\* ------------------------------------------------------------------------
\* _area called on its own, on regions drawn from a catalogue of rectangles
\* ------------------------------------------------------------------------
MaxContours == 3

\* the rectangle with corner (x0, y0), width w and height h, counter-clockwise
\* (an exterior) or clockwise (a hole)
Rect(x0, y0, w, h, ccw) ==
    IF ccw
    THEN << << x0, y0 >>, << x0 + w, y0 >>, << x0 + w, y0 + h >>, << x0, y0 + h >> >>
    ELSE << << x0, y0 >>, << x0, y0 + h >>, << x0 + w, y0 + h >>, << x0 + w, y0 >> >>

Contours ==
    { Rect(c[1], c[1] + 1, c[2], c[3], ccw) :
        c \in {-3, 2} \X {1, 4} \X {2, 5}, ccw \in BOOLEAN }

Regions ==
    { Paths(ps) : ps \in UNION { [1..n -> Contours] : n \in 0..MaxContours } }
        \cup { BarePath(c) : c \in Contours }

AreaInit ==
    /\ pc = "area"
    /\ Idle
    /\ vset \in Regions
    /\ area_ret = [exc |-> "", value |-> 0]

\* lines 132-144: one call of _area(vset)
CallArea ==
    /\ pc = "area"
    /\ area_ret' = area(vset)
    /\ pc' = IF area_ret'.exc = "" THEN "area_returned" ELSE "area_raised"
    /\ UNCHANGED << groups, results, ret, locals, vset >>

AreaNext == CallArea

AreaSpec == AreaInit /\ [][AreaNext]_vars

\* ------------------------------------------------------------------------
\* The area calculator
\* ------------------------------------------------------------------------
\* the signed area of a rectangle of the catalogue, from its extent and the
\* direction of its first turn (doubled, as every area of this module)
RectSigned(path) ==
    LET xs == { path[k][1] : k \in 1..Len(path) }
        ys == { path[k][2] : k \in 1..Len(path) }
        w  == (CHOOSE a \in xs : \A b \in xs : b <= a) - (CHOOSE a \in xs : \A b \in xs : a <= b)
        h  == (CHOOSE a \in ys : \A b \in ys : b <= a) - (CHOOSE a \in ys : \A b \in ys : a <= b)
    IN  Orient(path[1], path[2], path[3]) * 2 * w * h

AreaDone == pc \in {"area_returned", "area_raised"}

\* C9 as stated: _area returns the non-negative sum of the absolute areas of
\* the contours whatever their winding, and 0 for an empty list
C9_AsStated ==
    AreaDone /\ vset.nested =>
        /\ area_ret.exc = ""
        /\ area_ret.value >= 0
        /\ area_ret.value = SumSeq([i \in 1..Len(vset.v) |-> Abs(RectSigned(vset.v[i]))])

\* C9 amended: on a non-empty list of contours _area returns the sum of the
\* signed areas (counter-clockwise positive, clockwise negative), so that a
\* clockwise hole is subtracted and the total can be negative; on one bare
\* contour it returns that contour's signed area; on an empty list it raises
\* IndexError and returns nothing
C9_SignedSum ==
    AreaDone =>
        IF vset.v = << >> THEN area_ret.exc = "IndexError" /\ pc = "area_raised"
        ELSE /\ area_ret.exc = ""
             /\ pc = "area_returned"
             /\ area_ret.value =
                    IF vset.nested
                    THEN SumSeq([i \in 1..Len(vset.v) |-> RectSigned(vset.v[i])])
                    ELSE RectSigned(vset.v)

\* an exterior with a clockwise hole has been measured, and the hole was subtracted
C9_Witness ==
    /\ pc = "area_returned"
    /\ vset.nested
    /\ Len(vset.v) = 2
    /\ RectSigned(vset.v[1]) > 0
    /\ RectSigned(vset.v[2]) < 0
    /\ area_ret.value = RectSigned(vset.v[1]) + RectSigned(vset.v[2])
    /\ area_ret.value < RectSigned(vset.v[1])

\* ------------------------------------------------------------------------
\* The engine, one window at a time
\* ------------------------------------------------------------------------
\* the latest window went through the per-aircraft loop of _conflict
Ran == called /\ ~none

\* the rows emitted so far, over all windows
Emitted == Concat(results)

\* the rows emitted for the window of the latest _conflict call
EmittedHere == LET Here(r) == Bin(r) = Bin(traffic[1]) IN SelectSeq(Emitted, Here)

\* C1: a window of N < 2 records emits no result; a window of N >= 2 records
\* emits exactly N results, the k-th with the time and callsign of the k-th
\* record of the window
C1_OneResultPerRecord ==
    called =>
        IF Len(traffic) < 2
        THEN none /\ FPFs = << >> /\ EmittedHere = << >>
        ELSE /\ ~none
             /\ Len(FPFs) = Len(traffic)
             /\ EmittedHere = FPFs
             /\ \A k \in 1..Len(traffic) :
                    /\ FPFs[k].time = traffic[k].time
                    /\ FPFs[k].callsign = traffic[k].callsign

\* a window of three records has produced its three rows, and the analysis has
\* returned them
C1_Witness ==
    /\ Ran
    /\ Len(traffic) = 3
    /\ Len(FPFs) = 3
    /\ Emitted = FPFs
    /\ pc = "returned"
    /\ Len(ret.rows) = 3

\* C10: the pair arrays list every pair (a, b), a < b, once in lexicographic
\* order with the coordinates of a and b, and after the ADS-B filter the m-th
\* entry of ind is the flat index of the pair of aircraft i and i_other[m],
\* whose velocity heads the m-th velocity obstacle
C10_PairAlignment ==
    Ran =>
        LET n  == Len(traffic)
            np == Len(pairs.ind1)
        IN  /\ 2 * np = n * (n - 1)
            /\ Len(pairs.ind2) = np /\ Len(dist) = np /\ Len(qd) = np
            /\ Len(pairs.lat1) = np /\ Len(pairs.lon1) = np
            /\ Len(pairs.lat2) = np /\ Len(pairs.lon2) = np
            /\ \A p \in 1..np :
                   /\ 0 <= pairs.ind1[p] /\ pairs.ind1[p] < pairs.ind2[p] /\ pairs.ind2[p] < n
                   /\ pairs.lat1[p] = traffic[pairs.ind1[p] + 1].latitude
                   /\ pairs.lon1[p] = traffic[pairs.ind1[p] + 1].longitude
                   /\ pairs.lat2[p] = traffic[pairs.ind2[p] + 1].latitude
                   /\ pairs.lon2[p] = traffic[pairs.ind2[p] + 1].longitude
            /\ \A p, q \in 1..np :
                   p < q => \/ pairs.ind1[p] < pairs.ind1[q]
                            \/ pairs.ind1[p] = pairs.ind1[q] /\ pairs.ind2[p] < pairs.ind2[q]
            /\ \A k \in 1..n :
                   /\ Len(near[k].ind) = Len(near[k].i_other)
                   /\ Len(xy[k]) = Len(near[k].i_other)
                   /\ \A m \in 1..Len(near[k].i_other) :
                          /\ { pairs.ind1[near[k].ind[m] + 1], pairs.ind2[near[k].ind[m] + 1] }
                                 = { k - 1, near[k].i_other[m] }
                          /\ near[k].i_other[m] # k - 1
                          /\ dist[near[k].ind[m] + 1] < adsbmax
                          /\ xy[k][m][1] = << traffic[near[k].i_other[m] + 1].x,
                                              traffic[near[k].i_other[m] + 1].y >>

\* the ADS-B filter has dropped the first neighbour of the middle aircraft of
\* three and kept the second
C10_Witness ==
    /\ Ran
    /\ Len(traffic) = 3
    /\ pairs.ind1 = << 0, 0, 1 >>
    /\ pairs.ind2 = << 1, 2, 2 >>
    /\ dist[1] >= adsbmax
    /\ near[2] = [ind |-> << 2 >>, i_other |-> << 2 >>]

\* the number of lattice cells of the ring of aircraft k
RingCells(k) ==
    Cardinality({ c \in 1..16 :
                    InRing(Cells[c], Vel(ac_info[k].vmax), Vel(ac_info[k].vmin)) })

\* C4: an aircraft of a window of N >= 2 with no neighbour in ADS-B range gets
\* no clip path, takes the FRV-empty branch (ARV the full ring, FRV area 0,
\* ARV area pi * (vmax^2 - vmin^2)) and has fpf exactly 1
C4_NoNeighbourFpfOne ==
    Ran =>
        \A k \in 1..Len(traffic) :
            near[k].i_other = << >> /\ ac_info[k].vmax > ac_info[k].vmin =>
                /\ tried[k] = << >>
                /\ added[k] = << >>
                /\ FRV[k] = << >>
                /\ Len(ARV[k]) = RingCells(k)
                /\ areas[k].branch = "FRV_empty"
                /\ areas[k].FRV_area = 0
                /\ areas[k].ARV_area = RingArea(Vel(ac_info[k].vmax), Vel(ac_info[k].vmin))
                /\ areas[k].ARV_area > 0
                /\ FPFs[k].fpf.num = FPFs[k].fpf.den
                /\ FPFs[k].fpf.den # 0

\* an aircraft out of range of both others of its window, which are in range
\* of each other
C4_Witness ==
    /\ Ran
    /\ Len(traffic) = 3
    /\ \E k \in 1..3 :
           /\ near[k].i_other = << >>
           /\ areas[k].branch = "FRV_empty"
           /\ FPFs[k].fpf.num = FPFs[k].fpf.den
           /\ \E j \in 1..3 : near[j].i_other # << >>

\* C6: every emitted fpf with a non-zero denominator lies in [0, 1]: 0 when
\* the ARV is empty, 1 when the FRV is empty, and otherwise
\* ARV_area / (FRV_area + ARV_area) with the areas _area returns
C6_FpfInUnitInterval ==
    Ran =>
        \A k \in 1..Len(FPFs) :
            FPFs[k].fpf.den # 0 =>
                /\ FPFs[k].fpf.den > 0
                /\ 0 <= FPFs[k].fpf.num
                /\ FPFs[k].fpf.num <= FPFs[k].fpf.den
                /\ areas[k].branch = "ARV_empty" => ARV[k] = << >> /\ FPFs[k].fpf.num = 0
                /\ areas[k].branch = "FRV_empty" =>
                       FRV[k] = << >> /\ ARV[k] # << >> /\ FPFs[k].fpf.num = FPFs[k].fpf.den
                /\ areas[k].branch = "both" =>
                       /\ FRV[k] # << >> /\ ARV[k] # << >>
                       /\ FPFs[k].fpf.num = area(Paths(ARV[k])).value
                       /\ FPFs[k].fpf.den =
                              area(Paths(FRV[k])).value + area(Paths(ARV[k])).value

\* one window has an aircraft in each of the three branches' outcomes: fpf 0,
\* fpf 1 and an fpf strictly between
C6_Witness ==
    /\ Ran
    /\ \E k \in 1..Len(FPFs) :
           /\ areas[k].branch = "both"
           /\ 0 < FPFs[k].fpf.num
           /\ FPFs[k].fpf.num < FPFs[k].fpf.den
    /\ \E k \in 1..Len(FPFs) : areas[k].branch = "FRV_empty" /\ FPFs[k].fpf.num = FPFs[k].fpf.den
    /\ \E k \in 1..Len(FPFs) : areas[k].branch = "ARV_empty" /\ FPFs[k].fpf.num = 0

\* the wedge offsets of the m-th velocity obstacle of aircraft k: its two
\* corners relative to the neighbour's velocity
Offsets(k, m) ==
    << << xy[k][m][2][1] - xy[k][m][1][1], xy[k][m][2][2] - xy[k][m][1][2] >>,
       << xy[k][m][3][1] - xy[k][m][1][1], xy[k][m][3][2] - xy[k][m][1][2] >> >>

\* the wedge legs of pair p as scaled for aircraft k, multiplied by s
Legs(k, p, s) ==
    << << s * wedge[k].x1[p], s * wedge[k].y1[p] >>,
       << s * wedge[k].x2[p], s * wedge[k].y2[p] >> >>

\* C7: the wedge offsets of the velocity obstacle of aircraft i against
\* neighbour k are the pair's wedge legs negated exactly when k < i and
\* unchanged when k > i; in a window of two aircraft of equal vmax the offsets
\* built for the first against the second and for the second against the
\* first are exact negations of each other
C7_Mirroring ==
    Ran =>
        /\ \A k \in 1..Len(traffic) :
               \A m \in 1..Len(near[k].i_other) :
                   /\ near[k].i_other[m] < k - 1 =>
                          fix[k][m] = -1 /\ Offsets(k, m) = Legs(k, near[k].ind[m] + 1, -1)
                   /\ near[k].i_other[m] > k - 1 =>
                          fix[k][m] = 1 /\ Offsets(k, m) = Legs(k, near[k].ind[m] + 1, 1)
        /\ ( /\ Len(traffic) = 2
             /\ ac_info[1].vmax = ac_info[2].vmax
             /\ near[1].i_other = << 1 >>
             /\ near[2].i_other = << 0 >> ) =>
               /\ Offsets(1, 1)[1] = << -Offsets(2, 1)[1][1], -Offsets(2, 1)[1][2] >>
               /\ Offsets(1, 1)[2] = << -Offsets(2, 1)[2][1], -Offsets(2, 1)[2][2] >>

\* two aircraft of equal vmax in range of each other, with wedge offsets that
\* are not zero and are negations of each other
C7_Witness ==
    /\ Ran
    /\ Len(traffic) = 2
    /\ ac_info[1].vmax = ac_info[2].vmax
    /\ near[1].i_other = << 1 >>
    /\ near[2].i_other = << 0 >>
    /\ fix[1] = << 1 >>
    /\ fix[2] = << -1 >>
    /\ Offsets(1, 1)[1] # << 0, 0 >>
    /\ Offsets(1, 1)[1] # Offsets(1, 1)[2]
    /\ Offsets(1, 1)[1] = << -Offsets(2, 1)[1][1], -Offsets(2, 1)[1][2] >>
    /\ traffic[1].callsign # traffic[2].callsign

\* C2: when no window of the data set qualifies, the analysis completes and
\* yields an empty result sequence instead of raising
C2_EmptyResultNoError ==
    pc \in {"returned", "raised"} /\ results = << >> =>
        pc = "returned" /\ ret.exc = "" /\ ret.rows = << >>

\* C3: the velocity obstacle of every neighbour in ADS-B range is submitted as
\* a clip path unless the neighbour has the callsign of aircraft i, so that in
\* a window of two aircraft of distinct callsigns in range of each other both
\* get a clip path and neither fpf is 1
C3_SubmittedUnlessSameCallsign ==
    Ran =>
        /\ \A k \in 1..Len(traffic) :
               \A m \in 1..Len(near[k].i_other) :
                   (m - 1) \in Range(tried[k]) <=>
                       traffic[near[k].i_other[m] + 1].callsign # traffic[k].callsign
        /\ ( /\ Len(traffic) = 2
             /\ traffic[1].callsign # traffic[2].callsign
             /\ near[1].i_other = << 1 >>
             /\ near[2].i_other = << 0 >> ) =>
               \A k \in 1..2 :
                   tried[k] # << >> /\ FPFs[k].fpf.num # FPFs[k].fpf.den

\* the envelope table of the fallback lookup, by phase
TableRow(status) ==
    IF status \in {NaN, S_PUSHBACK, S_GATE, S_AT_GATE, S_onsurface} THEN EnvPushback
    ELSE IF status \in {S_TAXI, S_onramp, S_DEPARTING} THEN EnvTaxi
    ELSE EnvElse

\* C5: _load_BADA gives every status the row of its phase, in particular the
\* statuses the speed thresholds infer: PUSHBACK the pushback row, TAXI the
\* taxi row (vmax 30, separation 200 ft), TAKEOFF/LANDING the last row
C5_EnvelopeOfOwnPhase ==
    called =>
        /\ Len(ac_info) = Len(traffic)
        /\ \A k \in 1..Len(traffic) : ac_info[k] = TableRow(traffic[k].status)

\* C8: a pair's distance is clamped against the separation of that pair's own
\* aircraft (here: pairs whose two aircraft require the same separation): a
\* positive raw distance below it becomes the separation, a raw distance of 0
\* the separation plus the fixed increment, any other is unchanged, and the
\* separation never exceeds the distance used
C8_ClampAtOwnSeparation ==
    Ran =>
        \A p \in 1..Len(dist) :
            LET a   == pairs.ind1[p] + 1
                b   == pairs.ind2[p] + 1
                sep == ac_info[a].sep
                raw == qd[p].dist
            IN  ac_info[a].sep = ac_info[b].sep =>
                    /\ raw > 0 /\ raw < sep => dist[p] = sep
                    /\ raw = 0 => dist[p] = sep + 10000
                    /\ raw >= sep => dist[p] = raw
                    /\ sep <= dist[p]

====
